---------------------------- MODULE Spec2Model ----------------------------
(***************************************************************************)
(* Model of HeatMapSolver (src/src/simulation.py) and of the /simulate     *)
(* handler that drives it (src/src/app.py).                                *)
(*                                                                         *)
(* Numbers.  Python floats are modelled by exact rationals:                *)
(*   - a length is an integer number of quarter metres (1.0 m = 4);        *)
(*   - thermal_diffusivity is in (quarter metre)^2 / s and time_step in s, *)
(*     so alpha*dt/dx^2 is the rational (alpha*dt) / (dx*dx);              *)
(*   - a grid is a record [shape, exp, u]: the temperature of a cell is    *)
(*     u[cell] / (dx*dx)^exp.  exp counts the diffusion updates the grid   *)
(*     has been through; every operation below keeps all cells of one      *)
(*     grid on the same denominator, so no rounding is introduced.         *)
(* Optional values (None in the source) are sequences of length <= 1.      *)
(***************************************************************************)
EXTENDS Integers, Sequences, FiniteSets, TLC

\* ------------------------------------------------------------ bounds
\* Longest run of diffusion updates applied to one grid before a call must
\* start from a fresh grid again.
MaxSteps == 2

\* Number of /simulate requests the concurrent specification serves.
MaxRequests == 3

\* ------------------------------------------------------- arithmetic
None == <<>>

Some(v) == <<v>>

Max2(a, b) == IF a >= b THEN a ELSE b

Min2(a, b) == IF a <= b THEN a ELSE b

SetMax(S) == CHOOSE m \in S : \A k \in S : k <= m

\* int(n/d) for d > 0: Python's int() and numpy's astype(int32) truncate
\* towards zero.
Trunc(n, d) == IF n >= 0 THEN n \div d ELSE -((-n) \div d)

\* int(np.ceil(n/d)) for d > 0.
Ceil(n, d) == -((-n) \div d)

RECURSIVE Pow(_, _)
Pow(b, e) == IF e = 0 THEN 1 ELSE b * Pow(b, e - 1)

\* ------------------------------------------------------------ config
\* 1.0 metre of padding added to the bounding box, in quarter metres.
Pad == 4

\* A configuration (config.json): lengths in quarter metres, alpha in
\* (quarter metre)^2/s, dt in s.
Config(dx, dt, alpha, sources) ==
    [dx |-> dx, dt |-> dt, alpha |-> alpha,
     wall_temp |-> 1, initial_room_temp |-> 3, heat_sources |-> sources]

Source(x, y, radius, temperature) ==
    [x |-> x, y |-> y, radius |-> radius, temperature |-> temperature]

\* radius 0.5 m, centred on the centre of cell (row 1, col 1).
SrcInside == <<Source(6, 6, 2, 9)>>

\* Two overlapping sources (the second lies within the first), then one
\* straddling the grid's corner at the origin and one wholly beyond the grid.
SrcOverlap == <<Source(6, 6, 4, 9), Source(10, 6, 2, 7),
                Source(0, 0, 3, 5), Source(40, 40, 2, 8)>>

\* A source wholly outside the grid at negative coordinates, after one inside.
SrcNegative == <<Source(6, 6, 2, 9), Source(-12, -12, 4, 8)>>

\* dx = 1.0 m with alpha = 1 has the CFL limit dx^2/(4*alpha) = 4 s, with
\* alpha = 2 the limit 2 s; dx = 0.5 m with alpha = 1 has the limit 1 s.
Configs ==
    { Config(4, 3, 1, SrcInside),   Config(4, 4, 1, SrcOverlap),
      Config(4, 4, 1, SrcNegative), Config(4, 5, 1, SrcInside),
      Config(4, 8, 1, SrcOverlap),  Config(4, 2, 2, SrcInside),
      Config(4, 3, 2, SrcInside),   Config(2, 1, 1, SrcInside),
      Config(2, 2, 1, SrcInside) }

\* ---------------------------------------------------------- geometry
\* Room polygons, vertices in quarter metres.
Square == << <<0, 0>>, <<8, 0>>, <<8, 8>>, <<0, 8>> >>

\* Square with one vertex coordinate changed by 0.25 m: same grid shape.
SquareNudged == << <<0, 0>>, <<8, 0>>, <<8, 8>>, <<1, 8>> >>

Triangle == << <<0, 0>>, <<8, 0>>, <<0, 8>> >>

\* Square inset by 1 m, so that the grid has wall cells all round it.
Inset == << <<4, 4>>, <<12, 4>>, <<12, 12>>, <<4, 12>> >>

\* Square grown to 3 m x 2 m: the bounding box, and the grid, grow.
Wide == << <<0, 0>>, <<12, 0>>, <<12, 8>>, <<0, 8>> >>

\* Fewer than 3 points.
TwoPoints == << <<0, 0>>, <<8, 8>> >>

Geometries == {Square, SquareNudged, Triangle, Inset, Wide, TwoPoints}

\* ------------------------------------------------- pure operations
\* solve_step, lines 75-84: (rows, cols) from the bounding box's maximum
\* plus the padding, divided by the resolution and rounded up.
GridShape(geometry, dx) ==
    LET max_x == SetMax({geometry[i][1] : i \in 1..Len(geometry)})
        max_y == SetMax({geometry[i][2] : i \in 1..Len(geometry)})
    IN  <<Ceil(max_y + Pad, dx), Ceil(max_x + Pad, dx)>>

Cells(shape) == (0..(shape[1] - 1)) \X (0..(shape[2] - 1))

\* json.dumps(geometry): the text of the nested list, token by token.
RECURSIVE JsonDumps(_)
JsonDumps(geometry) ==
    IF geometry = <<>> THEN <<>>
    ELSE <<"[", Head(geometry)[1], ",", Head(geometry)[2], "]">>
         \o JsonDumps(Tail(geometry))

\* _get_geometry_hash: the MD5 digest of the dumped text.  MD5 is taken to be
\* collision free on the texts that occur: a digest is identified by the
\* text it digests.
GeometryHash(geometry) == <<"md5">> \o JsonDumps(geometry)

\* Whether the point (px, py) lies on the closed segment p1-p2.
OnSegment(p1, p2, px, py) ==
    /\ (p2[1] - p1[1]) * (py - p1[2]) = (p2[2] - p1[2]) * (px - p1[1])
    /\ Min2(p1[1], p2[1]) <= px /\ px <= Max2(p1[1], p2[1])
    /\ Min2(p1[2], p2[2]) <= py /\ py <= Max2(p1[2], p2[2])

\* Whether a ray from (px, py) in the +x direction crosses the edge p1-p2:
\* exactly one endpoint lies above the ray, and the intersection
\* x1 + (py - y1)*(x2 - x1)/(y2 - y1) lies strictly to the right of px.
RayCrosses(p1, p2, px, py) ==
    /\ (p1[2] > py) # (p2[2] > py)
    /\ LET num == (p1[1] - px) * (p2[2] - p1[2]) + (py - p1[2]) * (p2[1] - p1[1])
       IN  IF p2[2] > p1[2] THEN num > 0 ELSE num < 0

Edges(pts) == 1..Len(pts)

NextVertex(pts, i) == pts[(i % Len(pts)) + 1]

\* Even-odd rule: interior iff the number of crossed edges is odd.
EvenOdd(pts, px, py) ==
    Cardinality({i \in Edges(pts) : RayCrosses(pts[i], NextVertex(pts, i), px, py)}) % 2 = 1

\* cv2.fillPoly(img, [pts], 1) on integer vertices: it draws every edge of
\* the polygon and fills what they enclose, so a pixel is set iff it lies on
\* an edge or inside.  (Exact for edges that are horizontal, vertical or at
\* 45 degrees, which is what Geometries holds after truncation.)
FillPoly(pts, px, py) ==
    \/ \E i \in Edges(pts) : OnSegment(pts[i], NextVertex(pts, i), px, py)
    \/ EvenOdd(pts, px, py)

\* _rasterize_geometry: vertices divided by the resolution and truncated to
\* integer pixel coordinates, polygon filled into a rows x cols image.
\* mask[<<row, col>>] is the pixel (x = col, y = row).
Rasterize(geometry, grid_shape, dx) ==
    LET pts_int == [i \in 1..Len(geometry) |->
                       <<Trunc(geometry[i][1], dx), Trunc(geometry[i][2], dx)>>]
    IN  [cell \in Cells(grid_shape) |-> FillPoly(pts_int, cell[2], cell[1])]

\* alpha*dt/dx^2 = CoefNum/CoefDen.
CoefNum(cfg) == cfg.alpha * cfg.dt

CoefDen(cfg) == cfg.dx * cfg.dx

\* The numerator of temperature `temp` in a grid that went through `exp`
\* updates.
Scaled(temp, exp, cfg) == temp * Pow(CoefDen(cfg), exp)

\* solve_step, lines 102-104: np.full(shape, wall_temp), then
\* initial_room_temp wherever the mask is true.
InitGrid(mask, shape, cfg) ==
    [shape |-> shape, exp |-> 0,
     u |-> [cell \in Cells(shape) |->
               IF mask[cell] THEN cfg.initial_room_temp ELSE cfg.wall_temp]]

\* int(max(0, n/d)) and int(min(hi, n/d + 1)), lines 113-116.
BoxStart(n, d) == IF n <= 0 THEN 0 ELSE Trunc(n, d)

BoxEnd(hi, n, d) == IF n + d >= hi * d THEN hi ELSE Trunc(n + d, d)

\* A Python slice bound i applied to an axis of length n.
SliceIndex(i, n) == IF i < 0 THEN Max2(i + n, 0) ELSE Min2(i, n)

\* The box of one source, as the code computes it.
SourceBox(src, shape, dx) ==
    [r_start |-> BoxStart(src.y - src.radius, dx),
     r_end   |-> BoxEnd(shape[1], src.y + src.radius, dx),
     c_start |-> BoxStart(src.x - src.radius, dx),
     c_end   |-> BoxEnd(shape[2], src.x + src.radius, dx)]

\* dist_sq <= sr**2 for the centre of cell (row, col), in doubled
\* coordinates so that dx/2 stays an integer.
WithinRadius(src, row, col, dx) ==
    LET ddx == 2 * col * dx + dx - 2 * src.x
        ddy == 2 * row * dx + dx - 2 * src.y
    IN  ddx * ddx + ddy * ddy <= 4 * src.radius * src.radius

\* Lines 108-127 for one source.  np.ogrid[a:b] holds the indices a..b-1
\* (none when b <= a), while current_grid[a:b, ...] is a Python slice, in
\* which a negative bound counts from the end; assigning through a boolean
\* mask whose shape differs from the sliced view raises IndexError (numpy
\* 1.13 and later).
StampSource(g, src, cfg) ==
    LET box  == SourceBox(src, g.shape, cfg.dx)
        nr   == Max2(box.r_end - box.r_start, 0)
        nc   == Max2(box.c_end - box.c_start, 0)
        vr0  == SliceIndex(box.r_start, g.shape[1])
        vc0  == SliceIndex(box.c_start, g.shape[2])
        vnr  == Max2(SliceIndex(box.r_end, g.shape[1]) - vr0, 0)
        vnc  == Max2(SliceIndex(box.c_end, g.shape[2]) - vc0, 0)
        hit(cell) ==
            /\ vr0 <= cell[1] /\ cell[1] < vr0 + vnr
            /\ vc0 <= cell[2] /\ cell[2] < vc0 + vnc
            /\ WithinRadius(src, box.r_start + (cell[1] - vr0),
                                 box.c_start + (cell[2] - vc0), cfg.dx)
    IN  IF vnr # nr \/ vnc # nc
        THEN [raised |-> Some("IndexError"), grid |-> g]
        ELSE [raised |-> None,
              grid |-> [g EXCEPT !.u = [cell \in Cells(g.shape) |->
                           IF hit(cell) THEN Scaled(src.temperature, g.exp, cfg)
                           ELSE g.u[cell]]]]

\* Lines 107-127: the sources in list order, in place; the first error ends
\* the loop with the earlier sources' stamps already written.
RECURSIVE ApplySources(_, _, _)
ApplySources(g, sources, cfg) ==
    IF sources = <<>> THEN [raised |-> None, grid |-> g]
    ELSE LET one == StampSource(g, Head(sources), cfg)
         IN  IF one.raised # None THEN one
             ELSE ApplySources(one.grid, Tail(sources), cfg)

\* np.roll(u, k, axis): the neighbour k cells back, wrapping round.
Roll(u, shape, cell, dr, dc) ==
    u[<<(cell[1] + dr) % shape[1], (cell[2] + dc) % shape[2]>>]

\* Faulty variant of Diffuse: the update without the final wall reset.
DiffuseNoWallReset(g, mask, cfg) ==
    LET lap(cell) == Roll(g.u, g.shape, cell, 1, 0) + Roll(g.u, g.shape, cell, -1, 0)
                     + Roll(g.u, g.shape, cell, 0, 1) + Roll(g.u, g.shape, cell, 0, -1)
                     - 4 * g.u[cell]
    IN  [shape |-> g.shape, exp |-> g.exp + 1,
         u |-> [cell \in Cells(g.shape) |->
                   CoefDen(cfg) * g.u[cell] + CoefNum(cfg) * lap(cell)]]

\* Lines 129-145: new = u + alpha*dt*(up+down+left+right-4u)/dx^2, then
\* wall_temp wherever the mask is false.
Diffuse(g, mask, cfg) ==
    LET lap(cell) == Roll(g.u, g.shape, cell, 1, 0) + Roll(g.u, g.shape, cell, -1, 0)
                     + Roll(g.u, g.shape, cell, 0, 1) + Roll(g.u, g.shape, cell, 0, -1)
                     - 4 * g.u[cell]
    IN  [shape |-> g.shape, exp |-> g.exp + 1,
         u |-> [cell \in Cells(g.shape) |->
                   IF mask[cell]
                   THEN CoefDen(cfg) * g.u[cell] + CoefNum(cfg) * lap(cell)
                   ELSE Scaled(cfg.wall_temp, g.exp + 1, cfg)]]

\* -------------------------------------------------------------- state
VARIABLES
    config,               \* the loaded config.json
    solver,               \* "none", "ready" (constructed) or "failed"
    cached_mask,          \* self._cached_mask
    last_geometry_hash,   \* self._last_geometry_hash
    cached_grid_shape,    \* self._cached_grid_shape
    grid,                 \* SIMULATION_STATE["grid"]
    last,                 \* history: the most recent solve_step call
    serialized,           \* whether the host lets one request run at a time
    pc,                   \* where each request thread stands
    req,                  \* each request thread's local variables
    served,               \* requests begun so far
    grid_version,         \* history: assignments to SIMULATION_STATE["grid"]
    lost                  \* history: a step was overwritten unseen

threads == <<serialized, pc, req, served, grid_version, lost>>

vars == <<config, solver, cached_mask, last_geometry_hash, cached_grid_shape,
          grid, last, threads>>

Threads == {1, 2}

IdleReq == [geometry |-> None, current_grid |-> None, version |-> 0,
            mask |-> None, new_grid |-> None]

NoThreads ==
    /\ serialized = TRUE
    /\ pc = [t \in Threads |-> "idle"]
    /\ req = [t \in Threads |-> IdleReq]
    /\ served = 0
    /\ grid_version = 0
    /\ lost = FALSE

\* Faulty variant of Unstable: the bound itself rejected too.
UnstableAtLimit(cfg) == cfg.dt * (4 * cfg.alpha) >= cfg.dx * cfg.dx

\* _validate_stability: limit = dx**2 / (4*alpha); raise if dt > limit.
\* With alpha > 0 the comparison is dt * (4*alpha) > dx**2.
Unstable(cfg) == cfg.dt * (4 * cfg.alpha) > cfg.dx * cfg.dx

\* Faulty variant of CacheHit: the geometry hash is not compared.
CacheHitShapeOnly(mask, hash, shape, geo_hash, grid_shape) ==
    /\ mask # None
    /\ shape = Some(grid_shape)

\* The cache test of solve_step, lines 90-92.
CacheHit(mask, hash, shape, geo_hash, grid_shape) ==
    /\ mask # None
    /\ hash = Some(geo_hash)
    /\ shape = Some(grid_shape)

\* Line 102: a fresh grid is needed.
NeedsInit(current_grid, grid_shape) ==
    IF current_grid = None THEN TRUE ELSE current_grid[1].shape # grid_shape

\* solve_step(geometry, current_grid) run from the cache (mask, hash, shape):
\* everything the call computes, stores, raises and returns.
SolveStepRun(mask0, hash0, shape0, geometry, current_grid, cfg) ==
    LET grid_shape == GridShape(geometry, cfg.dx)
        geo_hash   == GeometryHash(geometry)
        hit        == CacheHit(mask0, hash0, shape0, geo_hash, grid_shape)
        mask       == IF hit THEN mask0[1]
                      ELSE Rasterize(geometry, grid_shape, cfg.dx)
        fresh      == NeedsInit(current_grid, grid_shape)
        prior      == IF fresh THEN InitGrid(mask, grid_shape, cfg)
                      ELSE current_grid[1]
        stamped    == ApplySources(prior, cfg.heat_sources, cfg)
    IN  [geometry |-> geometry, current_grid |-> current_grid,
         shape |-> grid_shape, hash |-> geo_hash,
         rasterized |-> ~hit, mask |-> mask, fresh |-> fresh,
         prior |-> prior, fed |-> stamped.grid, raised |-> stamped.raised,
         result |-> IF stamped.raised = None
                    THEN Some(Diffuse(stamped.grid, mask, cfg)) ELSE None]

NoCall == [called |-> FALSE]

\* The history record of a call: what it ran on and what it did.
Record(run, first, prev) ==
    run @@ [called |-> TRUE, first |-> first, prev |-> prev,
            mask0 |-> cached_mask, hash0 |-> last_geometry_hash,
            shape0 |-> cached_grid_shape]

Init ==
    /\ config \in Configs
    /\ solver = "none"
    /\ cached_mask = None
    /\ last_geometry_hash = None
    /\ cached_grid_shape = None
    /\ grid = None
    /\ last = NoCall
    /\ NoThreads

\* HeatMapSolver.__init__ (app.py line 14): the cache fields are cleared and
\* the stability check decides whether a solver comes to exist.
Construct ==
    /\ solver = "none"
    /\ solver' = IF Unstable(config) THEN "failed" ELSE "ready"
    /\ cached_mask' = None
    /\ last_geometry_hash' = None
    /\ cached_grid_shape' = None
    /\ UNCHANGED <<config, grid, last, threads>>

\* Faulty variant of StoreCache: a miss replaces the hash and the shape, and the
\* mask only when none is stored yet.
StoreCacheKeepMask(run) ==
    /\ cached_mask' = IF run.rasterized /\ cached_mask = None THEN Some(run.mask)
                      ELSE cached_mask
    /\ last_geometry_hash' = IF run.rasterized THEN Some(run.hash)
                             ELSE last_geometry_hash
    /\ cached_grid_shape' = IF run.rasterized THEN Some(run.shape)
                            ELSE cached_grid_shape

\* The cache after a call: lines 96-99 store the three fields on a miss.
StoreCache(run) ==
    /\ cached_mask' = IF run.rasterized THEN Some(run.mask) ELSE cached_mask
    /\ last_geometry_hash' = IF run.rasterized THEN Some(run.hash)
                             ELSE last_geometry_hash
    /\ cached_grid_shape' = IF run.rasterized THEN Some(run.shape)
                            ELSE cached_grid_shape

\* What the previous call was, for the history record.
PrevCall == IF last.called THEN Some([hash |-> last.hash, shape |-> last.shape])
            ELSE None

\* The grid a call may start from stays within MaxSteps updates.
WithinSteps(current_grid, geometry) ==
    IF NeedsInit(current_grid, GridShape(geometry, config.dx)) THEN TRUE
    ELSE current_grid[1].exp < MaxSteps

\* simulate(), app.py lines 47-66: one /simulate request.  A reset, or no
\* stored grid, passes None; otherwise the stored grid is passed, the
\* sources are stamped into it in place, and the result replaces it.  When
\* solve_step raises, the stored grid keeps the stamps already written.
Simulate(geometry, should_reset) ==
    /\ solver = "ready"
    /\ LET current_grid == IF should_reset \/ grid = None THEN None ELSE grid
           run == SolveStepRun(cached_mask, last_geometry_hash, cached_grid_shape,
                               geometry, current_grid, config)
       IN  /\ WithinSteps(current_grid, geometry)
           /\ StoreCache(run)
           /\ grid' = IF run.raised = None THEN run.result
                      ELSE IF run.fresh THEN grid ELSE Some(run.fed)
           /\ last' = Record(run, cached_mask = None, PrevCall)
    /\ UNCHANGED <<config, solver, threads>>

\* A grid a caller of solve_step may hold that no call returned.
CallerGrid ==
    [shape |-> <<3, 3>>, exp |-> 0, u |-> [cell \in Cells(<<3, 3>>) |-> 6]]

\* solve_step called directly with a grid of the caller's own; the result
\* goes back to the caller.
SolveStep(geometry) ==
    /\ solver = "ready"
    /\ LET run == SolveStepRun(cached_mask, last_geometry_hash, cached_grid_shape,
                               geometry, Some(CallerGrid), config)
       IN  /\ StoreCache(run)
           /\ last' = Record(run, cached_mask = None, PrevCall)
    /\ UNCHANGED <<config, solver, grid, threads>>

Next ==
    \/ Construct
    \/ \E geometry \in Geometries, should_reset \in BOOLEAN :
           Simulate(geometry, should_reset)
    \/ \E geometry \in Geometries : SolveStep(geometry)

Spec == Init /\ [][Next]_vars

\* ------------------------------------------------ concurrent requests
\* Two /simulate requests served by threads of one process, sharing the
\* solver and the grid of SIMULATION_STATE.  A thread may be preempted
\* between any two reads or writes of shared state; each action below is one
\* such read or write together with the local computation that follows it.
ConcGeometries == {Square, Triangle, SquareNudged}

ConcConfigs == {Config(4, 4, 1, SrcInside)}

ConcInit ==
    /\ config \in ConcConfigs
    /\ solver = "ready"
    /\ cached_mask = None
    /\ last_geometry_hash = None
    /\ cached_grid_shape = None
    /\ grid = None
    /\ last = NoCall
    /\ serialized \in BOOLEAN
    /\ pc = [t \in Threads |-> "idle"]
    /\ req = [t \in Threads |-> IdleReq]
    /\ served = 0
    /\ grid_version = 0
    /\ lost = FALSE

Goto(t, label) == pc' = [pc EXCEPT ![t] = label]

Shape(t) == GridShape(req[t].geometry[1], config.dx)

\* app.py lines 47-61: the request reads the stored grid and enters
\* solve_step with it, or with None on a reset.
Begin(t, geometry, should_reset) ==
    /\ pc[t] = "idle"
    /\ served < MaxRequests
    /\ serialized => \A o \in Threads : pc[o] = "idle"
    /\ served' = served + 1
    /\ req' = [req EXCEPT ![t] =
                  [geometry |-> Some(geometry),
                   current_grid |-> IF should_reset THEN None ELSE grid,
                   version |-> grid_version,
                   mask |-> None, new_grid |-> None]]
    /\ Goto(t, "check_mask")
    /\ UNCHANGED <<config, solver, cached_mask, last_geometry_hash,
                   cached_grid_shape, grid, last, serialized, grid_version, lost>>

Local(t) == UNCHANGED <<config, solver, cached_mask, last_geometry_hash,
                        cached_grid_shape, grid, last, serialized, served,
                        grid_version, lost>>

\* Line 90: self._cached_mask is not None.
CheckMask(t) ==
    /\ pc[t] = "check_mask"
    /\ Goto(t, IF cached_mask # None THEN "check_hash" ELSE "store_mask")
    /\ UNCHANGED req
    /\ Local(t)

\* Line 91: self._last_geometry_hash == geo_hash.
CheckHash(t) ==
    /\ pc[t] = "check_hash"
    /\ Goto(t, IF last_geometry_hash = Some(GeometryHash(req[t].geometry[1]))
               THEN "check_shape" ELSE "store_mask")
    /\ UNCHANGED req
    /\ Local(t)

\* Line 92: self._cached_grid_shape == (rows, cols).
CheckShape(t) ==
    /\ pc[t] = "check_shape"
    /\ Goto(t, IF cached_grid_shape = Some(Shape(t)) THEN "use_cached"
               ELSE "store_mask")
    /\ UNCHANGED req
    /\ Local(t)

\* Line 93: mask = self._cached_mask.
UseCached(t) ==
    /\ pc[t] = "use_cached"
    /\ req' = [req EXCEPT ![t].mask = cached_mask]
    /\ Goto(t, "step")
    /\ Local(t)

\* Lines 96-97: rasterize, then self._cached_mask = mask.
StoreMask(t) ==
    /\ pc[t] = "store_mask"
    /\ LET mask == Rasterize(req[t].geometry[1], Shape(t), config.dx)
       IN  /\ req' = [req EXCEPT ![t].mask = Some(mask)]
           /\ cached_mask' = Some(mask)
    /\ Goto(t, "store_hash")
    /\ UNCHANGED <<config, solver, last_geometry_hash, cached_grid_shape, grid,
                   last, serialized, served, grid_version, lost>>

\* Faulty variant of StoreHash: the hash is left as it was.
StoreHashSkipped(t) ==
    /\ pc[t] = "store_hash"
    /\ Goto(t, "store_shape")
    /\ UNCHANGED <<config, solver, cached_mask, last_geometry_hash,
                   cached_grid_shape, grid, last, serialized, req, served,
                   grid_version, lost>>

\* Line 98: self._last_geometry_hash = geo_hash.
StoreHash(t) ==
    /\ pc[t] = "store_hash"
    /\ last_geometry_hash' = Some(GeometryHash(req[t].geometry[1]))
    /\ Goto(t, "store_shape")
    /\ UNCHANGED <<config, solver, cached_mask, cached_grid_shape, grid, last,
                   serialized, req, served, grid_version, lost>>

\* Line 99: self._cached_grid_shape = (rows, cols).
StoreShape(t) ==
    /\ pc[t] = "store_shape"
    /\ cached_grid_shape' = Some(Shape(t))
    /\ Goto(t, "step")
    /\ UNCHANGED <<config, solver, cached_mask, last_geometry_hash, grid, last,
                   serialized, req, served, grid_version, lost>>

\* Lines 102-147: the grid is initialised or reused, the sources are stamped
\* (into the stored grid itself when that is the array the request holds)
\* and the update is computed.
Step(t) ==
    /\ pc[t] = "step"
    /\ LET fresh   == NeedsInit(req[t].current_grid, Shape(t))
           prior   == IF fresh THEN InitGrid(req[t].mask[1], Shape(t), config)
                      ELSE req[t].current_grid[1]
           stamped == ApplySources(prior, config.heat_sources, config).grid
       IN  /\ req' = [req EXCEPT ![t].new_grid =
                         Some(Diffuse(stamped, req[t].mask[1], config))]
           /\ grid' = IF ~fresh /\ req[t].version = grid_version
                      THEN Some(stamped) ELSE grid
    /\ Goto(t, "write_grid")
    /\ UNCHANGED <<config, solver, cached_mask, last_geometry_hash,
                   cached_grid_shape, last, serialized, served, grid_version, lost>>

\* app.py lines 62/66: SIMULATION_STATE["grid"] = new_grid.  The step is
\* lost when the request continued a grid that another request has replaced
\* in the meantime.
WriteGrid(t) ==
    /\ pc[t] = "write_grid"
    /\ grid' = req[t].new_grid
    /\ grid_version' = grid_version + 1
    /\ lost' = (lost \/ (req[t].current_grid # None /\ req[t].version # grid_version))
    /\ req' = [req EXCEPT ![t] = IdleReq]
    /\ Goto(t, "idle")
    /\ UNCHANGED <<config, solver, cached_mask, last_geometry_hash,
                   cached_grid_shape, last, serialized, served>>

ConcNext ==
    \E t \in Threads :
        \/ \E geometry \in ConcGeometries, should_reset \in BOOLEAN :
               Begin(t, geometry, should_reset)
        \/ CheckMask(t)
        \/ CheckHash(t)
        \/ CheckShape(t)
        \/ UseCached(t)
        \/ StoreMask(t)
        \/ StoreHash(t)
        \/ StoreShape(t)
        \/ Step(t)
        \/ WriteGrid(t)

SpecConc == ConcInit /\ [][ConcNext]_vars

\* ------------------------------------------------------------- claims
Returned == IF last.called THEN last.result # None ELSE FALSE

WallValue(g) == Scaled(config.wall_temp, g.exp, config)

\* C1 (wall invariant): in every grid solve_step returns, each cell whose
\* mask value is false holds exactly wall_temp, whatever the sources stamped
\* there and whatever the wrapped stencil computed.
C1_WallInvariant ==
    Returned =>
        \A cell \in Cells(last.shape) :
            ~last.mask[cell] => last.result[1].u[cell] = WallValue(last.result[1])

\* A returned grid with a wall cell that a source had stamped to another
\* temperature before the update, the call having continued a stored grid.
C1_Witness ==
    /\ Returned
    /\ ~last.fresh
    /\ \E cell \in Cells(last.shape) :
           /\ ~last.mask[cell]
           /\ last.fed.u[cell] # WallValue(last.fed)

FreshRun(geometry) == SolveStepRun(None, None, None, geometry, None, config)

\* C3 (determinism): the mask a call uses is the rasterization of its own
\* geometry at its own shape, and a call without a grid returns (or raises)
\* what it would on a freshly constructed solver.
C3_Deterministic ==
    last.called =>
        /\ last.mask = Rasterize(last.geometry, last.shape, config.dx)
        /\ last.current_grid = None =>
               /\ last.result = FreshRun(last.geometry).result
               /\ last.raised = FreshRun(last.geometry).raised

\* A call without a grid that was served from the cache and returned a grid.
C3_Witness ==
    /\ Returned
    /\ last.current_grid = None
    /\ ~last.rasterized

Covering(cell) ==
    {i \in 1..Len(config.heat_sources) :
        WithinRadius(config.heat_sources[i], cell[1], cell[2], config.dx)}

\* Whether a source's index box lies within 0..rows and 0..cols.
BoxClipped(src, shape) ==
    LET box == SourceBox(src, shape, config.dx)
    IN  /\ 0 <= box.r_start /\ box.r_start <= shape[1]
        /\ 0 <= box.r_end /\ box.r_end <= shape[1]
        /\ 0 <= box.c_start /\ box.c_start <= shape[2]
        /\ 0 <= box.c_end /\ box.c_end <= shape[2]

\* C5 (shape mismatch): a call whose current_grid has another shape than the
\* computed one raises nothing and returns what the call without a grid
\* returns, a grid of the mask's shape; a grid of the matching shape is
\* carried into the step as it is.
C5_MismatchResets ==
    (IF last.called THEN last.current_grid # None ELSE FALSE) =>
        /\ last.current_grid[1].shape # last.shape =>
               /\ last.raised = None
               /\ last.result # None
               /\ last.result = FreshRun(last.geometry).result
               /\ Cells(last.result[1].shape) = DOMAIN last.mask
        /\ last.current_grid[1].shape = last.shape =>
               last.prior = last.current_grid[1]

\* C7 (heat sources): stamping raises nothing, every source's index box lies
\* within the grid, and in the grid fed to the update a cell holds the
\* temperature of the last source in the list whose radius reaches its
\* centre, or its prior value when none does.
C7_SourcesStamped ==
    last.called =>
        /\ last.raised = None
        /\ \A i \in 1..Len(config.heat_sources) :
               BoxClipped(config.heat_sources[i], last.shape)
        /\ \A cell \in Cells(last.shape) :
               last.fed.u[cell] =
                   IF Covering(cell) = {} THEN last.prior.u[cell]
                   ELSE Scaled(config.heat_sources[SetMax(Covering(cell))].temperature,
                               last.prior.exp, config)

\* The interior test of the specification: the even-odd rule at the cell
\* centre (col*dx + dx/2, row*dx + dx/2), in doubled coordinates.
EvenOddMask(geometry, shape, dx) ==
    LET pts2 == [i \in 1..Len(geometry) |->
                    <<2 * geometry[i][1], 2 * geometry[i][2]>>]
    IN  [cell \in Cells(shape) |->
            EvenOdd(pts2, 2 * cell[2] * dx + dx, 2 * cell[1] * dx + dx)]

\* C6 (rasterization): for every polygon (3 points or more) the mask is true
\* exactly at the cells whose centre is interior under the even-odd rule.
C6_EvenOddAtCentres ==
    (IF last.called THEN Len(last.geometry) >= 3 ELSE FALSE) =>
        last.mask = EvenOddMask(last.geometry, last.shape, config.dx)

\* C8 (invalid geometry): a call with fewer than 3 points fails with
\* InvalidGeometryError, returns nothing and leaves the cache entry alone.
C8_InvalidGeometryRejected ==
    (IF last.called THEN Len(last.geometry) < 3 ELSE FALSE) =>
        /\ last.raised = Some("InvalidGeometryError")
        /\ last.result = None
        /\ cached_mask = last.mask0
        /\ last_geometry_hash = last.hash0
        /\ cached_grid_shape = last.shape0

\* The stored mask is the rasterization of the geometry whose hash is stored,
\* at the stored shape, which is that geometry's shape.
CacheBelongsTo(geometry) ==
    /\ last_geometry_hash = Some(GeometryHash(geometry))
    /\ cached_grid_shape = Some(GridShape(geometry, config.dx))
    /\ cached_mask = Some(Rasterize(geometry, GridShape(geometry, config.dx), config.dx))

CacheConsistent ==
    IF cached_mask = None THEN last_geometry_hash = None /\ cached_grid_shape = None
    ELSE \E geometry \in Geometries : CacheBelongsTo(geometry)

\* A call would hit the cache for `geometry` and get another geometry's mask.
CacheTorn ==
    \E geometry \in Geometries :
        /\ cached_mask # None
        /\ last_geometry_hash = Some(GeometryHash(geometry))
        /\ cached_grid_shape = Some(GridShape(geometry, config.dx))
        /\ cached_mask # Some(Rasterize(geometry, GridShape(geometry, config.dx), config.dx))

Quiet == \A t \in Threads : pc[t] = "idle"

\* C9 (serialized calls): with at most one request in flight no step is
\* lost, every step runs on the mask of its own geometry, and between
\* requests the stored mask, hash and shape belong to one geometry.
C9_SerializedConsistent ==
    serialized =>
        /\ ~lost
        /\ Quiet => CacheConsistent
        /\ \A t \in Threads :
               pc[t] \in {"step", "write_grid"} =>
                   req[t].mask = Some(Rasterize(req[t].geometry[1], Shape(t), config.dx))

\* Overlapping requests have left a cache entry whose mask is not that of
\* the stored hash, and one of them has overwritten the other's step.
C9_Witness ==
    /\ ~serialized
    /\ Quiet
    /\ CacheTorn
    /\ lost

\* C10 (wrap-around): an interior cell on an edge row or column of the grid
\* never has an interior cell as its wrapped neighbour.
C10_WrapHarmless ==
    last.called =>
        \A cell \in Cells(last.shape) :
            last.mask[cell] =>
                /\ cell[1] = 0 => ~last.mask[<<last.shape[1] - 1, cell[2]>>]
                /\ cell[1] = last.shape[1] - 1 => ~last.mask[<<0, cell[2]>>]
                /\ cell[2] = 0 => ~last.mask[<<cell[1], last.shape[2] - 1>>]
                /\ cell[2] = last.shape[2] - 1 => ~last.mask[<<cell[1], 0>>]

=============================================================================
